---- MODULE Spec2Model ----
(***************************************************************************)
(* A model of the particle simulation kernel: Particle, ParticleSystem and *)
(* PhysicsEngine, and the per-frame update of ParticleSimulationApp.       *)
(*                                                                         *)
(* Numbers.  The program computes in IEEE single precision.  The model     *)
(* computes in exact extended rationals <<n, d>>: d > 0 is the rational    *)
(* n/d in lowest terms, <<1, 0>> and <<-1, 0>> are +inf and -inf and       *)
(* <<0, 0>> is NaN, so x/0 and 0/0 behave as they do for floats.  Rounding *)
(* is not modelled, except in the square root of a number that is not a    *)
(* rational square, which is rounded down to a multiple of 1/SqrtDen.      *)
(***************************************************************************)
EXTENDS Integers, Sequences, FiniteSets, TLC

\* Binary digits kept after the point in the square root of a non-square.
SqrtBits == 5

\* Resolution of the square root of a non-square: results are multiples of 1/SqrtDen.
SqrtDen == 2 ^ SqrtBits

(***************************************************************************)
(* float arithmetic                                                        *)
(***************************************************************************)
Abs(i) == IF i < 0 THEN -i ELSE i

Sgn(i) == IF i < 0 THEN -1 ELSE IF i > 0 THEN 1 ELSE 0

RECURSIVE Gcd(_, _)
Gcd(a, b) == IF b = 0 THEN a ELSE Gcd(b, a % b)

\* The float n/d, normalised.
Frac(n, d) ==
    IF d = 0 THEN <<Sgn(n), 0>>
    ELSE LET g == Gcd(Abs(n), Abs(d))
         IN  <<(Sgn(d) * n) \div g, Abs(d) \div g>>

\* A float with an integer value.
F(i) == <<i, 1>>

Zero == <<0, 1>>

One == <<1, 1>>

NaN == <<0, 0>>

IsFinite(a) == a[2] > 0

\* operator+ (float)
FAdd(a, b) ==
    IF a[2] = 0 /\ b[2] = 0 THEN (IF a = b THEN a ELSE NaN)
    ELSE IF a[2] = b[2] THEN Frac(a[1] + b[1], a[2])
    ELSE LET g == Gcd(a[2], b[2])
         IN  Frac(a[1] * (b[2] \div g) + b[1] * (a[2] \div g), (a[2] \div g) * b[2])

\* unary operator- (float)
FNeg(a) == <<-a[1], a[2]>>

\* operator- (float)
FSub(a, b) == FAdd(a, FNeg(b))

\* operator* (float)
FMul(a, b) ==
    IF a[2] = 0 \/ b[2] = 0 THEN Frac(a[1] * b[1], 0)
    ELSE LET g == Gcd(Abs(a[1]), b[2])
             h == Gcd(Abs(b[1]), a[2])
         IN  Frac((a[1] \div g) * (b[1] \div h), (a[2] \div h) * (b[2] \div g))

\* operator/ (float)
FDiv(a, b) ==
    IF b = Zero THEN Frac(a[1], 0)
    ELSE IF a[2] = 0 \/ b[2] = 0 THEN Frac(a[1] * b[2] * Sgn(b[1]), a[2] * Abs(b[1]))
    ELSE FMul(a, <<Sgn(b[1]) * b[2], Abs(b[1])>>)

\* operator< (float); every comparison with NaN is false
FLt(a, b) ==
    IF a[2] = 0 /\ b[2] = 0 THEN a[1] < b[1] /\ a[1] # 0 /\ b[1] # 0
    ELSE IF a[2] = b[2] THEN a[1] < b[1]
    ELSE LET g == Gcd(a[2], b[2])
         IN  a[1] * (b[2] \div g) < b[1] * (a[2] \div g)

\* operator> (float)
FGt(a, b) == FLt(b, a)

\* operator<= (float)
FLe(a, b) == FLt(a, b) \/ (a = b /\ a # NaN)

\* operator>= (float)
FGe(a, b) == FLe(b, a)

FAbs(a) == <<Abs(a[1]), a[2]>>

\* The largest r in lo..hi with r * r <= n (hi * hi must not overflow).
RECURSIVE ISqrtIn(_, _, _)
ISqrtIn(n, lo, hi) ==
    IF lo >= hi THEN lo
    ELSE LET mid == (lo + hi + 1) \div 2
         IN  IF mid * mid <= n THEN ISqrtIn(n, mid, hi) ELSE ISqrtIn(n, lo, mid - 1)

ISqrt(n) == ISqrtIn(n, 0, IF n < 46340 THEN n ELSE 46340)

IsSquare(n) == ISqrt(n) * ISqrt(n) = n

\* std::sqrt: exact on the square of a float, rounded down to 1/SqrtDen otherwise.
FSqrt(a) ==
    IF a[2] = 0 THEN (IF a[1] > 0 THEN a ELSE NaN)
    ELSE IF a[1] < 0 THEN NaN
    ELSE IF IsSquare(a[1]) /\ IsSquare(a[2]) THEN <<ISqrt(a[1]), ISqrt(a[2])>>
    ELSE LET t == (a[1] % a[2]) * SqrtDen
             \* m = floor(a * SqrtDen^2), by long division
             m == (a[1] \div a[2]) * SqrtDen * SqrtDen + (t \div a[2]) * SqrtDen
                    + ((t % a[2]) * SqrtDen) \div a[2]
         IN  Frac(ISqrt(m), SqrtDen)

(***************************************************************************)
(* glm::vec2                                                               *)
(***************************************************************************)
Vec(x, y) == <<x, y>>

\* glm::vec2 of two integers
V(i, j) == <<F(i), F(j)>>

VZero == <<Zero, Zero>>

VAdd(u, v) == <<FAdd(u[1], v[1]), FAdd(u[2], v[2])>>

VSub(u, v) == <<FSub(u[1], v[1]), FSub(u[2], v[2])>>

VNeg(u) == <<FNeg(u[1]), FNeg(u[2])>>

\* vec2 * float
VScale(u, a) == <<FMul(u[1], a), FMul(u[2], a)>>

\* vec2 / float
VDiv(u, a) == <<FDiv(u[1], a), FDiv(u[2], a)>>

\* glm::dot
Dot(u, v) == FAdd(FMul(u[1], v[1]), FMul(u[2], v[2]))

\* glm::length: sqrt(dot(u, u)), which is |x| when y is 0 and |y| when x is 0
Length(u) ==
    IF u[2] = Zero THEN FAbs(u[1])
    ELSE IF u[1] = Zero THEN FAbs(u[2])
    ELSE FSqrt(Dot(u, u))

\* glm::normalize
Normalize(u) == VDiv(u, Length(u))

(***************************************************************************)
(* Particle                                                                *)
(***************************************************************************)
\* Default radius given by the constructor.
DefaultRadius == 5

\* Particle::Particle(pos, m): no argument is checked.
NewParticle(pos, m) ==
    [position |-> pos, mass |-> m, velocity |-> VZero, acceleration |-> VZero,
     radius |-> F(DefaultRadius)]

\* applyForce adding force / mass to the velocity instead of the acceleration.
ParticleApplyForce_Kick(p, force) ==
    [p EXCEPT !.velocity = VAdd(@, VDiv(force, p.mass))]

\* Particle::applyForce
ParticleApplyForce(p, force) ==
    [p EXCEPT !.acceleration = VAdd(@, VDiv(force, p.mass))]

\* Particle::update without the reset of the acceleration.
ParticleUpdate_NoReset(p, dt) ==
    LET v == VAdd(p.velocity, VScale(p.acceleration, dt))
    IN  [p EXCEPT !.velocity = v, !.position = VAdd(p.position, VScale(v, dt))]

\* Particle::update as explicit Euler: the position moves by the old velocity.
ParticleUpdate_ExplicitEuler(p, dt) ==
    [p EXCEPT !.velocity = VAdd(p.velocity, VScale(p.acceleration, dt)),
              !.position = VAdd(p.position, VScale(p.velocity, dt)),
              !.acceleration = VZero]

\* Particle::update: velocity first, then position from the new velocity, then
\* the acceleration is reset.
ParticleUpdate(p, dt) ==
    LET v == VAdd(p.velocity, VScale(p.acceleration, dt))
    IN  [p EXCEPT !.velocity = v,
                  !.position = VAdd(p.position, VScale(v, dt)),
                  !.acceleration = VZero]

(***************************************************************************)
(* ParticleSystem                                                          *)
(***************************************************************************)
\* addParticle putting the new particle first.
SystemAddParticle_Front(ps, p) == <<p>> \o ps

\* ParticleSystem::addParticle
SystemAddParticle(ps, p) == Append(ps, p)

\* ParticleSystem::update
SystemUpdate(ps, dt) == [i \in DOMAIN ps |-> ParticleUpdate(ps[i], dt)]

(***************************************************************************)
(* PhysicsEngine                                                           *)
(***************************************************************************)
\* applyGravity applying the gravity itself as the force, whatever the mass.
ApplyGravity_Unscaled(ps, gravity) ==
    [i \in DOMAIN ps |-> ParticleApplyForce(ps[i], gravity)]

\* PhysicsEngine::applyGravity
ApplyGravity(ps, gravity) ==
    [i \in DOMAIN ps |-> ParticleApplyForce(ps[i], VScale(gravity, ps[i].mass))]

\* The loop body of applyAirResistance without the test speed > 0.
DragOne_NoSpeedTest(p, resistance) ==
    ParticleApplyForce(p,
        VScale(VScale(VScale(VNeg(Normalize(p.velocity)), resistance),
                      Length(p.velocity)), Length(p.velocity)))

\* Body of the loop of PhysicsEngine::applyAirResistance
DragOne(p, resistance) ==
    LET speed == Length(p.velocity)
    IN  IF FGt(speed, Zero)
        THEN LET dragDirection == VNeg(Normalize(p.velocity))
                 dragForce == VScale(VScale(VScale(dragDirection, resistance), speed), speed)
             IN  ParticleApplyForce(p, dragForce)
        ELSE p

\* PhysicsEngine::applyAirResistance
ApplyAirResistance(ps, resistance) == [i \in DOMAIN ps |-> DragOne(ps[i], resistance)]

\* PhysicsEngine::applyGlobalForce
ApplyGlobalForce(ps, force) == [i \in DOMAIN ps |-> ParticleApplyForce(ps[i], force)]

\* PhysicsEngine::calculateDistance
CalculateDistance(p1, p2) == Length(VSub(p2.position, p1.position))

\* checkCollision counting a touching pair as colliding.
CheckCollision_Touching(p1, p2) ==
    FLe(CalculateDistance(p1, p2), FAdd(p1.radius, p2.radius))

\* PhysicsEngine::checkCollision
CheckCollision(p1, p2) == FLt(CalculateDistance(p1, p2), FAdd(p1.radius, p2.radius))

\* resolveCollision without the positional correction.
ResolveCollision_NoSeparation(p1, p2, damping) ==
    LET collisionNormal == Normalize(VSub(p2.position, p1.position))
        velAlongNormal == Dot(VSub(p2.velocity, p1.velocity), collisionNormal)
        j == FDiv(FMul(FNeg(FAdd(One, damping)), velAlongNormal),
                  FAdd(FDiv(One, p1.mass), FDiv(One, p2.mass)))
        impulse == VScale(collisionNormal, j)
    IN  IF p1.position = p2.position \/ FGt(velAlongNormal, Zero) THEN <<p1, p2>>
        ELSE <<[p1 EXCEPT !.velocity = VSub(@, VDiv(impulse, p1.mass))],
               [p2 EXCEPT !.velocity = VAdd(@, VDiv(impulse, p2.mass))]>>

\* resolveCollision with the impulse applied to both particles undivided by the mass.
ResolveCollision_ImpulseAsVelocity(p1, p2, damping) ==
    LET delta == VSub(p2.position, p1.position)
        distance == Length(delta)
        collisionNormal == Normalize(delta)
        separation == FMul(FSub(FAdd(p1.radius, p2.radius), distance), Frac(1, 2))
        q1 == [p1 EXCEPT !.position = VSub(@, VScale(collisionNormal, separation))]
        q2 == [p2 EXCEPT !.position = VAdd(@, VScale(collisionNormal, separation))]
        velAlongNormal == Dot(VSub(p2.velocity, p1.velocity), collisionNormal)
        j == FDiv(FMul(FNeg(FAdd(One, damping)), velAlongNormal),
                  FAdd(FDiv(One, p1.mass), FDiv(One, p2.mass)))
        impulse == VScale(collisionNormal, j)
    IN  IF distance = Zero THEN <<p1, p2>>
        ELSE IF FGt(velAlongNormal, Zero) THEN <<q1, q2>>
        ELSE <<[q1 EXCEPT !.velocity = VSub(@, impulse)],
               [q2 EXCEPT !.velocity = VAdd(@, impulse)]>>

\* resolveCollision without the return for coincident centres.
ResolveCollision_NoDegenerateTest(p1, p2, damping) ==
    LET delta == VSub(p2.position, p1.position)
        distance == Length(delta)
        collisionNormal == Normalize(delta)
        separation == FMul(FSub(FAdd(p1.radius, p2.radius), distance), Frac(1, 2))
        q1 == [p1 EXCEPT !.position = VSub(@, VScale(collisionNormal, separation))]
        q2 == [p2 EXCEPT !.position = VAdd(@, VScale(collisionNormal, separation))]
        velAlongNormal == Dot(VSub(p2.velocity, p1.velocity), collisionNormal)
        j == FDiv(FMul(FNeg(FAdd(One, damping)), velAlongNormal),
                  FAdd(FDiv(One, p1.mass), FDiv(One, p2.mass)))
        impulse == VScale(collisionNormal, j)
    IN  IF FGt(velAlongNormal, Zero) THEN <<q1, q2>>
        ELSE <<[q1 EXCEPT !.velocity = VSub(@, VDiv(impulse, p1.mass))],
               [q2 EXCEPT !.velocity = VAdd(@, VDiv(impulse, p2.mass))]>>

\* resolveCollision without the return for separating particles.
ResolveCollision_AlwaysImpulse(p1, p2, damping) ==
    LET delta == VSub(p2.position, p1.position)
        distance == Length(delta)
        collisionNormal == Normalize(delta)
        separation == FMul(FSub(FAdd(p1.radius, p2.radius), distance), Frac(1, 2))
        q1 == [p1 EXCEPT !.position = VSub(@, VScale(collisionNormal, separation))]
        q2 == [p2 EXCEPT !.position = VAdd(@, VScale(collisionNormal, separation))]
        velAlongNormal == Dot(VSub(p2.velocity, p1.velocity), collisionNormal)
        j == FDiv(FMul(FNeg(FAdd(One, damping)), velAlongNormal),
                  FAdd(FDiv(One, p1.mass), FDiv(One, p2.mass)))
        impulse == VScale(collisionNormal, j)
    IN  IF distance = Zero THEN <<p1, p2>>
        ELSE <<[q1 EXCEPT !.velocity = VSub(@, VDiv(impulse, p1.mass))],
               [q2 EXCEPT !.velocity = VAdd(@, VDiv(impulse, p2.mass))]>>

\* PhysicsEngine::resolveCollision; the result is the pair <<p1, p2>> afterwards.
ResolveCollision(p1, p2, damping) ==
    LET delta == VSub(p2.position, p1.position)
        distance == Length(delta)
        collisionNormal == Normalize(delta)
        overlap == FSub(FAdd(p1.radius, p2.radius), distance)
        separation == FMul(overlap, Frac(1, 2))
        q1 == [p1 EXCEPT !.position = VSub(@, VScale(collisionNormal, separation))]
        q2 == [p2 EXCEPT !.position = VAdd(@, VScale(collisionNormal, separation))]
        relativeVelocity == VSub(p2.velocity, p1.velocity)
        velAlongNormal == Dot(relativeVelocity, collisionNormal)
        restitution == damping
        j == FDiv(FMul(FNeg(FAdd(One, restitution)), velAlongNormal),
                  FAdd(FDiv(One, p1.mass), FDiv(One, p2.mass)))
        impulse == VScale(collisionNormal, j)
    IN  IF distance = Zero THEN <<p1, p2>>
        ELSE IF FGt(velAlongNormal, Zero) THEN <<q1, q2>>
        ELSE <<[q1 EXCEPT !.velocity = VSub(@, VDiv(impulse, p1.mass))],
               [q2 EXCEPT !.velocity = VAdd(@, VDiv(impulse, p2.mass))]>>

\* The pair (i, j) of the particles ps replaced by the pair r, and noted in hits.
Resolved(w, i, j, r) ==
    [w EXCEPT !.ps = [w.ps EXCEPT ![i] = r[1], ![j] = r[2]],
              !.hits = w.hits \cup {<<i, j>>}]

\* The pair (i, j) has been tested with checkCollision.
Tested(w, i, j) == [w EXCEPT !.tests = Append(@, <<i, j>>)]

\* The loops of handleCollisions testing and resolving every pair as it was in ps0,
\* the particles at the start of the pass.
RECURSIVE CollideSnapshot(_, _, _, _, _)
CollideSnapshot(w, ps0, i, j, damping) ==
    IF i > Len(w.ps) THEN w
    ELSE IF j > Len(w.ps) THEN CollideSnapshot(w, ps0, i + 1, i + 2, damping)
    ELSE IF CheckCollision(ps0[i], ps0[j])
         THEN CollideSnapshot(Resolved(Tested(w, i, j), i, j,
                                       ResolveCollision(ps0[i], ps0[j], damping)),
                              ps0, i, j + 1, damping)
         ELSE CollideSnapshot(Tested(w, i, j), ps0, i, j + 1, damping)

\* handleCollisions working from a snapshot of the particles.
HandleCollisions_Snapshot(ps, damping) ==
    CollideSnapshot([ps |-> ps, hits |-> {}, tests |-> <<>>], ps, 1, 2, damping)

\* The loops of PhysicsEngine::handleCollisions from the pair (i, j) on, on
\* w = [ps: the particles, hits: the pairs found colliding so far, tests: the
\* pairs tested so far, in order].
RECURSIVE CollideFrom(_, _, _, _)
CollideFrom(w, i, j, damping) ==
    IF i > Len(w.ps) THEN w
    ELSE IF j > Len(w.ps) THEN CollideFrom(w, i + 1, i + 2, damping)
    ELSE IF CheckCollision(w.ps[i], w.ps[j])
         THEN CollideFrom(Resolved(Tested(w, i, j), i, j,
                                   ResolveCollision(w.ps[i], w.ps[j], damping)),
                          i, j + 1, damping)
         ELSE CollideFrom(Tested(w, i, j), i, j + 1, damping)

\* PhysicsEngine::handleCollisions; the result is [ps: the particles afterwards,
\* hits: the pairs found colliding, each when it was tested, tests: the pairs
\* tested, in order].
HandleCollisions(ps, damping) ==
    CollideFrom([ps |-> ps, hits |-> {}, tests |-> <<>>], 1, 2, damping)

\* The first test of an axis in the loop body of applyBoundaryConstraints.
ConstrainMin(p, k, lo, damping) ==
    IF FLt(FSub(p.position[k], p.radius), lo)
    THEN [p EXCEPT !.position[k] = FAdd(lo, p.radius),
                   !.velocity[k] = FMul(FNeg(@), damping)]
    ELSE p

\* The second test of an axis with the velocity reversed but not damped.
ConstrainMax_Undamped(p, k, hi, damping) ==
    IF FGt(FAdd(p.position[k], p.radius), hi)
    THEN [p EXCEPT !.position[k] = FSub(hi, p.radius),
                   !.velocity[k] = FNeg(@)]
    ELSE p

\* The second test of an axis in the loop body of applyBoundaryConstraints.
ConstrainMax(p, k, hi, damping) ==
    IF FGt(FAdd(p.position[k], p.radius), hi)
    THEN [p EXCEPT !.position[k] = FSub(hi, p.radius),
                   !.velocity[k] = FMul(FNeg(@), damping)]
    ELSE p

\* One axis of the loop body of applyBoundaryConstraints: the two tests in order.
ConstrainAxis(p, k, lo, hi, damping) ==
    ConstrainMax(ConstrainMin(p, k, lo, damping), k, hi, damping)

\* PhysicsEngine::applyBoundaryConstraints
ApplyBoundaryConstraints(ps, minBounds, maxBounds, damping) ==
    [i \in DOMAIN ps |->
        ConstrainAxis(ConstrainAxis(ps[i], 1, minBounds[1], maxBounds[1], damping),
                      2, minBounds[2], maxBounds[2], damping)]

\* A call made by a step: its result, and its name appended to the calls made so
\* far, on w = [ps: the particles, log: the calls made, hits: the pairs found colliding].
Phase(w, name, ps) == [w EXCEPT !.ps = ps, !.log = Append(@, name)]

\* The call of handleCollisions made by a step, with the result r = [ps, hits, tests].
CollisionPhase(w, r) ==
    [Phase(w, "handleCollisions", r.ps) EXCEPT !.hits = @ \cup r.hits,
                                               !.tests = @ \o r.tests]

\* The start of an operation on the particles ps.
Begin(ps) == [ps |-> ps, log |-> <<>>, hits |-> {}, tests |-> <<>>]

\* The calls a step makes, each on the record w that the call before it left.
StepApplyGravity(w, gravity) == Phase(w, "applyGravity", ApplyGravity(w.ps, gravity))

StepApplyAirResistance(w, resistance) ==
    Phase(w, "applyAirResistance", ApplyAirResistance(w.ps, resistance))

StepHandleCollisions(w, damping) == CollisionPhase(w, HandleCollisions(w.ps, damping))

StepUpdate(w, dt) == Phase(w, "update", SystemUpdate(w.ps, dt))

StepApplyBoundaryConstraints(w, minBounds, maxBounds, damping) ==
    Phase(w, "applyBoundaryConstraints",
          ApplyBoundaryConstraints(w.ps, minBounds, maxBounds, damping))

\* PhysicsEngine::integrateParticles, on w = [ps, log, hits]: gravity, air
\* resistance, collisions, then the commit.
IntegrateParticles(w, gravity, resistance, damping, dt) ==
    StepUpdate(
        StepHandleCollisions(
            StepApplyAirResistance(StepApplyGravity(w, gravity), resistance),
            damping),
        dt)

(***************************************************************************)
(* ParticleSimulationApp                                                   *)
(***************************************************************************)
\* The body of the loop of createParticles: construct, set velocity and radius.
MakeParticle(pos, m, vel, r) ==
    [NewParticle(pos, m) EXCEPT !.velocity = vel, !.radius = r]

\* update() with the boundary confinement between the forces and the collisions.
AppUpdate_ForcesFirst(w, minBounds, maxBounds, gravity, resistance, damping, dt) ==
    StepUpdate(
        StepHandleCollisions(
            StepApplyBoundaryConstraints(
                StepApplyAirResistance(StepApplyGravity(w, gravity), resistance),
                minBounds, maxBounds, damping),
            damping),
        dt)

\* ParticleSimulationApp::update, on w = [ps, log, hits]: the boundary
\* confinement, then integrateParticles.
AppUpdate(w, minBounds, maxBounds, gravity, resistance, damping, dt) ==
    IntegrateParticles(StepApplyBoundaryConstraints(w, minBounds, maxBounds, damping),
                       gravity, resistance, damping, dt)

(***************************************************************************)
(* State                                                                   *)
(***************************************************************************)
VARIABLES
    particles,          \* ParticleSystem::particles
    m_gravity,          \* PhysicsEngine::m_gravity
    m_airResistance,    \* PhysicsEngine::m_airResistance
    m_collisionDamping, \* PhysicsEngine::m_collisionDamping
    deltaTime,          \* the deltaTime of the run (const in ParticleSimulationApp::run)
    worldMin,           \* the minBounds that update() passes
    worldMax,           \* the maxBounds that update() passes
    history,            \* the operations performed so far, by name
    before,             \* the particles before the last operation
    phases,             \* the calls the last operation made, in order
    collided,           \* the pairs the last operation found colliding
    tested,             \* the pairs the last operation tested for collision, in order
    initial,            \* the particles in the initial state
    recorded,           \* the samples each history of the profiler held initially
    m_frameCount,       \* the frames run() has completed, modulo CaptureEvery
    m_simulationTime,   \* ParticleSimulationApp::m_simulationTime
    m_frames,           \* JSONExporter::m_frames
    m_drawn,            \* the circles of the last Renderer::renderParticleSystem
    m_currentParticleCount, \* PerformanceProfiler::m_currentParticleCount
    m_maxFrames,        \* JSONExporter::m_maxFrames
    m_firstFrameTime,   \* JSONExporter::m_firstFrameTime
    m_lastFrameTime,    \* JSONExporter::m_lastFrameTime
    m_particleCountHistory, \* PerformanceProfiler::m_particleCountHistory
    m_currentFPS,       \* PerformanceProfiler::m_currentFPS
    m_fpsHistory,       \* PerformanceProfiler::m_fpsHistory
    m_frameStartTime,   \* PerformanceProfiler::m_frameStartTime
    m_frameTime,        \* PerformanceProfiler::m_lastFrameTime, the last frame's duration
    m_frameTimeHistory, \* PerformanceProfiler::m_frameTimeHistory
    m_startTimes,       \* PerformanceProfiler::m_startTimes, as pairs <<name, time>>
    m_timingHistory,    \* PerformanceProfiler::m_timingHistory
    now,                \* the reading of std::chrono::high_resolution_clock
    pc,                 \* where run() is: "loop", "cleanup" (loop left), "done"
    shouldClose,        \* Renderer::shouldClose(): the window has been asked to close
    cleanups            \* the calls of ParticleSimulationApp::cleanup so far

vars == <<particles, m_gravity, m_airResistance, m_collisionDamping, deltaTime,
          worldMin, worldMax, history, before, phases, collided, tested, initial,
          recorded,
          m_frameCount, m_simulationTime, m_frames, m_drawn,
          m_currentParticleCount, m_maxFrames, m_firstFrameTime, m_lastFrameTime,
          m_particleCountHistory, m_currentFPS, m_fpsHistory, m_frameStartTime,
          m_frameTime, m_frameTimeHistory, m_startTimes, m_timingHistory, now,
          pc, shouldClose, cleanups>>

\* The control of run(): m_isRunning is true from the start of run() to the end of
\* cleanup(), that is while pc is not "done".
control == <<pc, shouldClose, cleanups>>

\* The state of the exporter, the renderer and the profiler, and the clock of the
\* simulation that the exporter is given.
collaborators == <<m_simulationTime, m_frames, m_drawn, m_currentParticleCount,
                   m_maxFrames, m_firstFrameTime, m_lastFrameTime,
                   m_particleCountHistory, m_currentFPS, m_fpsHistory,
                   m_frameStartTime, m_frameTime, m_frameTimeHistory, m_startTimes,
                   m_timingHistory, now>>

\* What the profiler measures with the clock: the frame rate, the frame times, the
\* timers.
measurements == <<m_currentFPS, m_fpsHistory, m_frameStartTime, m_frameTime,
                  m_frameTimeHistory, m_startTimes, m_timingHistory, now>>

config == <<m_gravity, m_airResistance, m_collisionDamping, deltaTime,
            worldMin, worldMax, initial, recorded>>

\* Steps of a run of the application that are explored.
MaxSteps == 3

\* Calls of the engine's and the collection's operations that are explored.
MaxOps == 2

\* The bounds update() passes: glm::vec2(-100, -100) and glm::vec2(100, 100).
AppWorldMin == -100

AppWorldMax == 100

\* TARGET_FPS: run() steps by deltaTime = 1 / TARGET_FPS.
TARGET_FPS == 60

\* run() captures a frame for export when m_frameCount % 30 == 0.
CaptureEvery == 30

\* Half the width of the small world of the scenarios with walls within reach.
SmallWorld == 3

(***************************************************************************)
(* Initial states: particle layouts and configurations                     *)
(***************************************************************************)
Masses == {<<F(1), F(1)>>, <<F(2), F(2)>>, <<F(1), F(2)>>}

\* One particle of radius 1 at the origin.
Singles ==
    {<<MakeParticle(V(0, 0), F(m), v, F(1))>> :
        m \in {1, 2, 3}, v \in {V(0, 0), V(1, 0), V(2, -1)}}

\* Two particles of radius 1 on the x axis at -x and x, with velocities v and -v:
\* apart (x = 11/10), touching (x = 1), overlapping (x = 1/2), coincident (x = 0).
AxisPairs ==
    {<<MakeParticle(<<FNeg(x), Zero>>, m[1], <<F(v), Zero>>, F(1)),
       MakeParticle(<<x, Zero>>, m[2], <<F(-v), Zero>>, F(1))>> :
        x \in {Frac(11, 10), F(1), Frac(1, 2), Zero}, v \in {2, 0, -1}, m \in Masses}

\* Two particles of radius 1 whose line of centres is along (3, 4), overlapping
\* (distance 1) or touching (distance 2), with the velocities vs.
Diagonal(vs) ==
    {<<MakeParticle(V(0, 0), m[1], v[1], F(1)),
       MakeParticle(<<Frac(3 * d, 5), Frac(4 * d, 5)>>, m[2], v[2], F(1))>> :
        d \in {1, 2}, m \in Masses, v \in vs}

\* Velocities along the line of centres: approaching, separating.
HeadOn == {<<V(3, 4), V(-3, -4)>>, <<V(-3, -4), V(3, 4)>>}

\* Three particles of radius 1 in a row, each overlapping the next.
Triples ==
    {<<MakeParticle(<<Frac(-3, 2), Zero>>, F(1), <<F(v), Zero>>, F(1)),
       MakeParticle(V(0, 0), F(m), V(0, 0), F(1)),
       MakeParticle(<<Frac(3, 2), Zero>>, F(1), <<F(-v), Zero>>, F(1))>> :
        v \in {0, 1}, m \in {1, 2}}

AppBounds == [lo |-> V(AppWorldMin, AppWorldMin), hi |-> V(AppWorldMax, AppWorldMax)]

SmallBounds == [lo |-> V(-SmallWorld, -SmallWorld), hi |-> V(SmallWorld, SmallWorld)]

\* Configurations: gravity, air resistance, damping, deltaTime and world bounds.
Conf(g, k, e, dt, world) == [g |-> g, k |-> k, e |-> e, dt |-> dt, world |-> world]

Configs ==
    { Conf(V(0, 0), Zero, Frac(4, 5), Frac(1, TARGET_FPS), AppBounds), \* as main.cpp
      Conf(V(0, 0), Zero, One, Frac(1, 10), AppBounds),
      Conf(V(0, 0), Zero, Zero, Frac(1, 10), AppBounds),
      Conf(V(0, 0), Zero, One, One, SmallBounds),
      Conf(V(0, -10), Zero, Frac(4, 5), Frac(1, 2), SmallBounds),
      Conf(V(0, -10), Zero, One, Frac(1, 10), AppBounds),
      Conf(V(0, 0), Zero, One, Frac(-1, 10), AppBounds) }

\* Configurations with air resistance, and the layouts they are explored with.
DragConfigs == { Conf(V(0, 0), One, One, One, AppBounds) }

\* An overlapping pair that is separating slowly.
SlowPairs ==
    {<<MakeParticle(<<Frac(-1, 2), Zero>>, F(1), <<Frac(-3, 2), Zero>>, F(1)),
       MakeParticle(<<Frac(1, 2), Zero>>, F(1), <<Frac(3, 2), Zero>>, F(1))>>}

DragLayouts ==
    {ps \in Singles : ps[1].velocity[2] = Zero}
        \cup {ps \in AxisPairs : ps[1].mass = F(1) /\ ps[2].mass = F(1)}
        \cup SlowPairs

\* Rows of three are explored with the damping factors 0 and 1.
TripleConfigs == {c \in Configs : c.e \in {Zero, One}}

\* Pairs on the diagonal are explored without gravity and with the walls far away.
DiagonalConfigs == {c \in Configs : c.g = VZero /\ c.world = AppBounds}

\* One particle of radius 1 whose edge is beyond a wall, or beyond two at a corner,
\* as createParticles places a centre anywhere in [-100, 100].
EdgeSingles ==
    {<<MakeParticle(pos, F(1), v, F(1))>> :
        pos \in {V(AppWorldMax, 0), V(AppWorldMin, AppWorldMin)},
        v \in {V(0, 0), V(1, 0)}}

Scenarios ==
    ((Singles \cup AxisPairs \cup EdgeSingles) \X Configs)
        \cup (Diagonal(HeadOn) \X DiagonalConfigs)
        \cup (DragLayouts \X DragConfigs) \cup (Triples \X TripleConfigs)

\* The state after construction and configuration: layout ps under configuration c.
\* m_jsonExporter.setMaxFrames(500) in the constructor of the application
AppMaxFrames == 500

\* The names under which main.cpp times its scopes (PROFILE_SCOPE)
TimerNames == {"physics_update", "total_frame"}

\* The profiler with n samples in each of its histories and no timer pending; a
\* freshly constructed profiler has none. The samples are 1, 2, ... n, oldest first.
Profiled(n) ==
    /\ recorded = n
    /\ m_currentParticleCount = n
    /\ m_particleCountHistory = [k \in 1..n |-> k]
    /\ m_currentFPS = n
    /\ m_fpsHistory = [k \in 1..n |-> k]
    /\ m_frameStartTime = 0
    /\ m_frameTime = n
    /\ m_frameTimeHistory = [k \in 1..n |-> k]
    /\ m_startTimes = {}
    /\ m_timingHistory = [name \in TimerNames |-> [k \in 1..n |-> k]]
    /\ now = 0

\* The particle system, the engine, the loop and the exporter after the constructor
\* of the application.
Simulation(ps, c) ==
    /\ particles = ps
    /\ m_gravity = c.g
    /\ m_airResistance = c.k
    /\ m_collisionDamping = c.e
    /\ deltaTime = c.dt
    /\ worldMin = c.world.lo
    /\ worldMax = c.world.hi
    /\ history = <<>>
    /\ before = ps
    /\ phases = <<>>
    /\ collided = {}
    /\ tested = <<>>
    /\ initial = ps
    /\ m_frameCount = 0
    /\ m_simulationTime = Zero
    /\ m_frames = <<>>
    /\ m_drawn = <<>>
    /\ m_maxFrames = AppMaxFrames
    /\ m_firstFrameTime = Zero
    /\ m_lastFrameTime = Zero
    /\ pc = "loop"
    /\ shouldClose = FALSE
    /\ cleanups = 0

Start(ps, c) == Simulation(ps, c) /\ Profiled(0)

Init == \E sc \in Scenarios : Start(sc[1], sc[2])

(***************************************************************************)
(* Operations                                                              *)
(***************************************************************************)
\* An operation has left the result w = [ps, log, hits].
Result(w) ==
    /\ particles' = w.ps
    /\ before' = particles
    /\ phases' = w.log
    /\ collided' = w.hits
    /\ tested' = w.tests
    /\ UNCHANGED config

\* The operation `name` has run with result w = [ps, log, hits].
Done(name, w) ==
    /\ Result(w)
    /\ history' = Append(history, name)
    /\ UNCHANGED <<m_frameCount, collaborators, control>>

\* ParticleSimulationApp::update(deltaTime): one frame's step
Update(limit) ==
    /\ Len(history) < limit
    /\ Done("update", AppUpdate(Begin(particles), worldMin, worldMax, m_gravity,
                                m_airResistance, m_collisionDamping, deltaTime))

\* PhysicsEngine::integrateParticles(system, deltaTime)
Integrate(limit) ==
    /\ Len(history) < limit
    /\ Done("integrateParticles",
            IntegrateParticles(Begin(particles), m_gravity, m_airResistance,
                               m_collisionDamping, deltaTime))

Next == Update(MaxSteps) \/ Integrate(MaxSteps)

\* Runs of the application's step and of the engine's step.
Spec == Init /\ [][Next]_vars

(***************************************************************************)
(* The operations of the collection and of the engine, called one by one   *)
(***************************************************************************)
\* The arguments of Particle(pos, m) that are explored.
PositionInputs == {V(0, 0), V(10, 10)}

MassInputs == {F(1), F(2), Zero, F(-1)}

\* system.addParticle(Particle(pos, m)), as build_native/simple_test.cpp calls it on
\* a collection built from the empty one; the layouts stand for collections that
\* createParticles has built, to which nothing is added afterwards.
AddParticle(pos, m) ==
    /\ Len(history) < MaxOps
    /\ initial = <<>>
    /\ Done("addParticle", Begin(SystemAddParticle(particles, NewParticle(pos, m))))

\* engine.applyGravity(system, gravity)
CallApplyGravity ==
    /\ Len(history) < MaxOps
    /\ Done("applyGravity", Begin(ApplyGravity(particles, m_gravity)))

\* engine.applyAirResistance(system, resistance)
CallApplyAirResistance ==
    /\ Len(history) < MaxOps
    /\ Done("applyAirResistance", Begin(ApplyAirResistance(particles, m_airResistance)))

\* engine.applyGlobalForce(system, force)
CallApplyGlobalForce(force) ==
    /\ Len(history) < MaxOps
    /\ Done("applyGlobalForce", Begin(ApplyGlobalForce(particles, force)))

\* engine.applyBoundaryConstraints(system, minBounds, maxBounds)
CallApplyBoundaryConstraints ==
    /\ Len(history) < MaxOps
    /\ Done("applyBoundaryConstraints",
            Begin(ApplyBoundaryConstraints(particles, worldMin, worldMax,
                                           m_collisionDamping)))

\* The result r = [ps, hits] of a call of handleCollisions by itself.
Collided(r) == [Begin(r.ps) EXCEPT !.hits = r.hits, !.tests = r.tests]

\* engine.handleCollisions(system, damping)
CallHandleCollisions ==
    /\ Len(history) < MaxOps
    /\ Done("handleCollisions",
            Collided(HandleCollisions(particles, m_collisionDamping)))

\* system.update(deltaTime)
CallSystemUpdate ==
    /\ Len(history) < MaxOps
    /\ Done("systemUpdate", Begin(SystemUpdate(particles, deltaTime)))

\* Layouts and configurations the single operations are explored from: the
\* layouts of the runs, rows of three, and the empty collection.
ApiConfigs ==
    { Conf(V(0, 0), Zero, One, Frac(1, 10), SmallBounds),
      Conf(V(0, -10), Zero, Frac(4, 5), Frac(1, 2), SmallBounds),
      Conf(V(0, 0), Zero, Zero, Frac(-1, 10), AppBounds) }

\* Two particles of radius 1 with the same centre and a third that overlaps both.
CoincidentTriples ==
    {<<MakeParticle(V(0, 0), F(1), <<F(v), Zero>>, F(1)),
       MakeParticle(V(0, 0), F(m), V(0, 0), F(1)),
       MakeParticle(<<Frac(3, 2), Zero>>, F(1), <<F(-v), Zero>>, F(1))>> :
        v \in {0, 1}, m \in {1, 2}}

\* One moving particle of radius 1 that in the small world is beyond the right
\* wall only, beyond the left and the top wall, or beyond the bottom wall only.
WallSingles ==
    {<<MakeParticle(pos, F(1), V(1, -2), F(1))>> :
        pos \in {<<Frac(5, 2), Zero>>, <<Frac(-5, 2), Frac(5, 2)>>, <<One, Frac(-5, 2)>>}}

ApiLayouts ==
    {<<>>} \cup Singles \cup AxisPairs \cup Triples \cup CoincidentTriples
        \cup EdgeSingles \cup WallSingles

\* Pairs of equal mass on the diagonal, explored without gravity.
ApiDiagonal == {ps \in Diagonal(HeadOn) : ps[1].mass = ps[2].mass}

\* Particles at rest under gravity and air resistance together.
RestLayouts ==
    {ps \in Singles \cup AxisPairs : \A i \in DOMAIN ps : ps[i].velocity = VZero}

RestConfigs == { Conf(V(0, -10), One, Frac(4, 5), Frac(1, 2), SmallBounds) }

ApiScenarios ==
    (ApiLayouts \X ApiConfigs) \cup (DragLayouts \X DragConfigs)
        \cup (RestLayouts \X RestConfigs)
        \cup (ApiDiagonal \X {c \in ApiConfigs : c.g = VZero})

InitApi == \E sc \in ApiScenarios : Start(sc[1], sc[2])

NextApi ==
    \/ \E pos \in PositionInputs, m \in MassInputs : AddParticle(pos, m)
    \/ CallApplyGravity
    \/ CallApplyAirResistance
    \/ \E force \in {V(1, 0), V(-2, 0)} : CallApplyGlobalForce(force)
    \/ CallApplyBoundaryConstraints
    \/ CallHandleCollisions
    \/ CallSystemUpdate
    \/ Integrate(MaxOps)
    \/ Update(MaxOps)

SpecApi == InitApi /\ [][NextApi]_vars

(***************************************************************************)
(* The main loop, frame after frame                                        *)
(***************************************************************************)
\* m_frameCount++ at the end of an iteration of the loop. Only its residue
\* modulo CaptureEvery is kept: it decides the captures, and a run can then be
\* followed without end.
CountFrame == m_frameCount' = (m_frameCount + 1) % CaptureEvery

\* One iteration of the loop of ParticleSimulationApp::run as far as the particles
\* and the frame count go: update(deltaTime), then m_frameCount++.  What the
\* iteration does to the exporter, the renderer, the profiler and the simulation
\* time is followed by RunFrame and is not followed here.
Frame ==
    /\ Result(AppUpdate(Begin(particles), worldMin, worldMax, m_gravity,
                        m_airResistance, m_collisionDamping, deltaTime))
    /\ CountFrame
    /\ UNCHANGED <<history, collaborators, control>>

\* Particles in the small world with elastic walls, no gravity and no drag: one
\* particle, or two of equal mass on the x axis.
LiveLayouts ==
    Singles \cup {ps \in AxisPairs : ps[1].mass = ps[2].mass /\ ps[1].velocity[1] # F(-1)}

InitLive ==
    \E ps \in LiveLayouts : Start(ps, Conf(V(0, 0), Zero, One, One, SmallBounds))

\* The loop runs iteration after iteration: the frame count always advances
\* again, and a step that advances it is a Frame.  The end of the demo after 30
\* simulated seconds and the closing of the window are left out: the frames go on.
SpecLive == InitLive /\ [][Frame]_vars /\ WF_m_frameCount(CountFrame)

(***************************************************************************)
(* The collaborators: exporter, renderer, profiler                         *)
(***************************************************************************)
\* What the loop body has at hand after update(): a = [ps, frames, drawn, count],
\* the particle system and the state of the three collaborators.
Observed(ps) ==
    [ps |-> ps, frames |-> m_frames, drawn |-> m_drawn, count |-> m_currentParticleCount,
     maxFrames |-> m_maxFrames, first |-> m_firstFrameTime, last |-> m_lastFrameTime,
     counts |-> m_particleCountHistory]

\* The ParticleData that captureFrame fills for one particle
ParticleData(p, timestamp) ==
    [position |-> p.position, velocity |-> p.velocity, acceleration |-> p.acceleration,
     mass |-> p.mass, radius |-> p.radius, timestamp |-> timestamp]

\* The SimulationFrame that captureFrame fills (the measured fps is left out)
SimulationFrame(ps, timestamp, frameNumber) ==
    [timestamp |-> timestamp, frameNumber |-> frameNumber, particleCount |-> Len(ps),
     particles |-> [i \in DOMAIN ps |-> ParticleData(ps[i], timestamp)]]

\* m_frames after the push_back of captureFrame: the oldest frame goes when there
\* are more than maxFrames.
Limited(frames, maxFrames) ==
    IF Len(frames) > maxFrames THEN Tail(frames) ELSE frames

\* A captureFrame that takes the particles out of the system it is given.
CaptureFrame_Draining(a, timestamp, frameNumber) ==
    [a EXCEPT !.ps = <<>>,
              !.first = IF a.frames = <<>> THEN timestamp ELSE @,
              !.last = timestamp,
              !.frames = Limited(Append(@, SimulationFrame(a.ps, timestamp, frameNumber)),
                                 a.maxFrames)]

\* JSONExporter::captureFrame(system, timestamp, frameNumber, fps)
CaptureFrame(a, timestamp, frameNumber) ==
    [a EXCEPT !.first = IF a.frames = <<>> THEN timestamp ELSE @,
              !.last = timestamp,
              !.frames = Limited(Append(@, SimulationFrame(a.ps, timestamp, frameNumber)),
                                 a.maxFrames)]

\* Renderer::renderParticleSystem(system): one drawCircle(position, radius, color)
\* for each particle, in order; the colour, computed from the velocity, is left out.
RenderParticleSystem(a) ==
    [a EXCEPT !.drawn = [i \in DOMAIN a.ps |->
                            [center |-> a.ps[i].position, radius |-> a.ps[i].radius]]]

\* The samples a history may hold
MAX_HISTORY_SIZE == 1000

\* A history after its push_back: the oldest sample goes when there are more than
\* MAX_HISTORY_SIZE.
Trimmed(samples) ==
    IF Len(samples) > MAX_HISTORY_SIZE THEN Tail(samples) ELSE samples

\* PerformanceProfiler::updateParticleCount(count)
UpdateParticleCount(a, count) ==
    [a EXCEPT !.count = count, !.counts = Trimmed(Append(@, count))]

\* The export of run(): every 30th frame is captured, with the simulation time and
\* the frame count as they are before they advance.
PeriodicCapture(a) ==
    IF m_frameCount % CaptureEvery = 0
        THEN CaptureFrame(a, m_simulationTime, m_frameCount)
        ELSE a

\* The loop body of run() after update(): render(), the profiler, the export.
AfterUpdate(a) ==
    PeriodicCapture(UpdateParticleCount(RenderParticleSystem(a), Len(a.ps)))

\* The loop body has left the particle system and the collaborators as in a.
Left(a) ==
    /\ particles' = a.ps
    /\ m_frames' = a.frames
    /\ m_drawn' = a.drawn
    /\ m_currentParticleCount' = a.count
    /\ m_firstFrameTime' = a.first
    /\ m_lastFrameTime' = a.last
    /\ m_particleCountHistory' = a.counts
    /\ UNCHANGED m_maxFrames

\* The loop body whose update() had the result w = [ps, log, hits]. What the loop
\* measures with the clock (beginFrame, endFrame, updateFPS, the scoped timers) is
\* not followed here: those calls are the actions of the profiler below.
Looped(w) ==
    /\ Left(AfterUpdate(Observed(w.ps)))
    /\ before' = particles
    /\ phases' = w.log
    /\ collided' = w.hits
    /\ tested' = w.tests
    /\ UNCHANGED <<config, measurements>>

\* One whole iteration of the loop of ParticleSimulationApp::run: update(deltaTime),
\* render(), the profiler, the periodic export, m_frameCount++ and
\* m_simulationTime += deltaTime.
LoopBody ==
    /\ Looped(AppUpdate(Begin(particles), worldMin, worldMax, m_gravity,
                        m_airResistance, m_collisionDamping, deltaTime))
    /\ CountFrame
    /\ m_simulationTime' = FAdd(m_simulationTime, deltaTime)

\* An iteration of the loop, among the first `limit` of a run.
RunFrame(limit) ==
    /\ Len(history) < limit
    /\ LoopBody
    /\ history' = Append(history, "frame")
    /\ UNCHANGED control

NextRun == RunFrame(MaxSteps)

\* Runs of the main loop with its collaborators.
SpecRun == Init /\ [][NextRun]_vars

(***************************************************************************)
(* The main loop from start to cleanup                                     *)
(***************************************************************************)
\* The demo ends when the simulation time is beyond 30 seconds.
DemoSeconds == 30

\* The end of the demo as soon as the simulation time reaches 30 seconds.
Expired_AtThirty(t) == FGe(t, F(DemoSeconds))

\* if (m_simulationTime > 30.0f) break, on the simulation time t just advanced
Expired(t) == FGt(t, F(DemoSeconds))

\* The simulation time advances in the loop.
Advance ==
    /\ pc = "loop"
    /\ ~shouldClose
    /\ m_simulationTime' = FAdd(m_simulationTime, deltaTime)

\* One iteration of while (m_isRunning && !m_renderer.shouldClose()), to the break
\* at its end.
LoopIteration ==
    /\ Advance
    /\ LoopBody
    /\ pc' = IF Expired(FAdd(m_simulationTime, deltaTime)) THEN "cleanup" ELSE "loop"
    /\ UNCHANGED <<history, shouldClose, cleanups>>

\* The user closes the window: glfwWindowShouldClose becomes true.
CloseWindow ==
    /\ pc = "loop"
    /\ ~shouldClose
    /\ shouldClose' = TRUE
    /\ UNCHANGED <<particles, config, history, before, phases, collided, tested,
                   m_frameCount, collaborators, pc, cleanups>>

\* The loop condition fails because the window should close.
ExitLoop ==
    /\ pc = "loop"
    /\ shouldClose
    /\ pc' = "cleanup"
    /\ UNCHANGED <<particles, config, history, before, phases, collided, tested,
                   m_frameCount, collaborators, shouldClose, cleanups>>

\* cleanup() after the loop: the exports and the reports, then m_isRunning = false.
Cleanup ==
    /\ pc = "cleanup"
    /\ pc' = "done"
    /\ cleanups' = cleanups + 1
    /\ UNCHANGED <<particles, config, history, before, phases, collided, tested,
                   m_frameCount, collaborators, shouldClose>>

\* The application as main.cpp configures it.
AppConfig == Conf(V(0, 0), Zero, Frac(4, 5), Frac(1, TARGET_FPS), AppBounds)

\* One particle of mass 1 at the origin, at rest or moving.
LoopLayouts == {ps \in Singles : ps[1].mass = F(1)}

InitLoop == \E ps \in LoopLayouts : Start(ps, AppConfig)

NextLoop == LoopIteration \/ CloseWindow \/ ExitLoop \/ Cleanup

\* run() from the start of the loop: the loop iterates as long as it can, leaves
\* when its condition fails, and cleanup() follows; the window may be closed at any
\* time, or never.
SpecLoop ==
    /\ InitLoop
    /\ [][NextLoop]_vars
    /\ WF_m_simulationTime(Advance)
    /\ WF_pc(ExitLoop)
    /\ WF_pc(Cleanup)

(***************************************************************************)
(* The exporter, call by call                                              *)
(***************************************************************************)
\* Calls of the exporter, or of the profiler, that are explored.
MaxCalls == 3

\* What a call of the exporter or of the profiler leaves alone: the engine and the
\* loop.
simulation == <<config, before, phases, collided, tested, m_frameCount,
                m_simulationTime, control>>

\* The call `op` with the argument `arg` has been made.
Called(op, arg) == history' = Append(history, [op |-> op, arg |-> arg])

\* m_jsonExporter.captureFrame(m_particleSystem, timestamp, frameNumber, fps)
ExporterCaptureFrame(timestamp, frameNumber) ==
    /\ Len(history) < MaxCalls
    /\ Left(CaptureFrame(Observed(particles), timestamp, frameNumber))
    /\ Called("captureFrame", SimulationFrame(particles, timestamp, frameNumber))
    /\ UNCHANGED <<simulation, measurements>>

\* JSONExporter::setMaxFrames(maxFrames)
SetMaxFrames(maxFrames) ==
    /\ Len(history) < MaxCalls
    /\ m_maxFrames' = maxFrames
    /\ Called("setMaxFrames", maxFrames)
    /\ UNCHANGED <<particles, simulation, measurements, m_frames, m_drawn,
                   m_currentParticleCount, m_particleCountHistory,
                   m_firstFrameTime, m_lastFrameTime>>

\* JSONExporter::clearData(); the custom data, which it clears too, are not
\* followed.
ClearData ==
    /\ Len(history) < MaxCalls
    /\ m_frames' = <<>>
    /\ m_firstFrameTime' = Zero
    /\ m_lastFrameTime' = Zero
    /\ Called("clearData", 0)
    /\ UNCHANGED <<particles, simulation, measurements, m_drawn, m_maxFrames,
                   m_currentParticleCount, m_particleCountHistory>>

\* The exporter of the application, before run() has captured anything.
InitExporter == \E ps \in LoopLayouts : Start(ps, AppConfig)

\* Any call of the exporter: frames are numbered as the calls are, their timestamps
\* and the caps are the small numbers.
NextExporter ==
    \/ \E t \in 0..MaxCalls : ExporterCaptureFrame(F(t), Len(history))
    \/ \E n \in 0..MaxCalls : SetMaxFrames(n)
    \/ ClearData

SpecExporter == InitExporter /\ [][NextExporter]_vars

(***************************************************************************)
(* The profiler, call by call                                              *)
(***************************************************************************)
\* What a call of the profiler leaves alone: the simulation and the exporter.
exported == <<m_frames, m_maxFrames, m_firstFrameTime, m_lastFrameTime>>

\* std::chrono::high_resolution_clock::now(): the clock has been read, and reads
\* later the next time.
ClockRead == now' = now + 1

\* The start of the timer `name` that is pending, as a set: empty or one time.
StartOf(name) == {e \in m_startTimes : e[1] = name}

\* PerformanceProfiler::startTimer(name)
StartTimer(name) ==
    /\ Len(history) < MaxCalls
    /\ ClockRead
    /\ m_startTimes' = (m_startTimes \ StartOf(name)) \cup {<<name, now>>}
    /\ Called("startTimer", name)
    /\ UNCHANGED <<particles, simulation, exported, m_drawn, m_currentParticleCount,
                   m_particleCountHistory, m_currentFPS, m_fpsHistory,
                   m_frameStartTime, m_frameTime, m_frameTimeHistory,
                   m_timingHistory>>

\* PerformanceProfiler::endTimer(name)
EndTimer(name) ==
    /\ Len(history) < MaxCalls
    /\ ClockRead
    /\ IF StartOf(name) # {}
          THEN /\ m_timingHistory' =
                    [m_timingHistory EXCEPT ![name] =
                        Trimmed(Append(@, now - (CHOOSE e \in StartOf(name) : TRUE)[2]))]
               /\ m_startTimes' = m_startTimes \ StartOf(name)
          ELSE UNCHANGED <<m_timingHistory, m_startTimes>>
    /\ Called("endTimer", name)
    /\ UNCHANGED <<particles, simulation, exported, m_drawn, m_currentParticleCount,
                   m_particleCountHistory, m_currentFPS, m_fpsHistory,
                   m_frameStartTime, m_frameTime, m_frameTimeHistory>>

\* PerformanceProfiler::beginFrame()
BeginFrame ==
    /\ Len(history) < MaxCalls
    /\ ClockRead
    /\ m_frameStartTime' = now
    /\ Called("beginFrame", 0)
    /\ UNCHANGED <<particles, simulation, exported, m_drawn, m_currentParticleCount,
                   m_particleCountHistory, m_currentFPS, m_fpsHistory, m_frameTime,
                   m_frameTimeHistory, m_startTimes, m_timingHistory>>

\* PerformanceProfiler::endFrame()
EndFrame ==
    /\ Len(history) < MaxCalls
    /\ ClockRead
    /\ m_frameTime' = now - m_frameStartTime
    /\ m_frameTimeHistory' = Trimmed(Append(m_frameTimeHistory, now - m_frameStartTime))
    /\ Called("endFrame", 0)
    /\ UNCHANGED <<particles, simulation, exported, m_drawn, m_currentParticleCount,
                   m_particleCountHistory, m_currentFPS, m_fpsHistory,
                   m_frameStartTime, m_startTimes, m_timingHistory>>

\* PerformanceProfiler::updateFPS(fps)
UpdateFPS(fps) ==
    /\ Len(history) < MaxCalls
    /\ m_currentFPS' = fps
    /\ m_fpsHistory' = Trimmed(Append(m_fpsHistory, fps))
    /\ Called("updateFPS", fps)
    /\ UNCHANGED <<particles, simulation, exported, m_drawn, m_currentParticleCount,
                   m_particleCountHistory, m_frameStartTime, m_frameTime,
                   m_frameTimeHistory, m_startTimes, m_timingHistory, now>>

\* m_profiler.updateParticleCount(count)
ProfilerUpdateParticleCount(count) ==
    /\ Len(history) < MaxCalls
    /\ Left(UpdateParticleCount(Observed(particles), count))
    /\ Called("updateParticleCount", count)
    /\ UNCHANGED <<simulation, measurements>>

RECURSIVE Accumulate(_, _, _)
\* std::accumulate over values[lo..hi], from 0; the sum is exact, so it is taken
\* half by half.
Accumulate(values, lo, hi) ==
    IF lo > hi THEN 0
    ELSE IF lo = hi THEN values[lo]
    ELSE Accumulate(values, lo, (lo + hi) \div 2)
             + Accumulate(values, ((lo + hi) \div 2) + 1, hi)

\* The lesser and the greater of two samples
Lesser(x, y) == IF y < x THEN y ELSE x
Greater(x, y) == IF x < y THEN y ELSE x

RECURSIVE MinElement(_, _, _)
\* std::min_element over values[lo..hi], lo <= hi
MinElement(values, lo, hi) ==
    IF lo = hi THEN values[lo]
    ELSE Lesser(MinElement(values, lo, (lo + hi) \div 2),
                MinElement(values, ((lo + hi) \div 2) + 1, hi))

RECURSIVE MaxElement(_, _, _)
\* std::max_element over values[lo..hi], lo <= hi
MaxElement(values, lo, hi) ==
    IF lo = hi THEN values[lo]
    ELSE Greater(MaxElement(values, lo, (lo + hi) \div 2),
                 MaxElement(values, ((lo + hi) \div 2) + 1, hi))

\* The callCount of getProfileData(name): times.size(), or 0 for a name with no
\* history or an empty one.
CallCount(name) ==
    IF name \in DOMAIN m_timingHistory /\ m_timingHistory[name] # <<>>
        THEN Len(m_timingHistory[name])
        ELSE 0

\* The ProfileData of a history that is not empty
Profile(name, times) ==
    [name |-> name,
     totalTime |-> F(Accumulate(times, 1, Len(times))),
     minTime |-> F(MinElement(times, 1, Len(times))),
     maxTime |-> F(MaxElement(times, 1, Len(times))),
     avgTime |-> FDiv(F(Accumulate(times, 1, Len(times))), F(Len(times))),
     callCount |-> CallCount(name)]

\* PerformanceProfiler::getProfileData(name); a name never timed has no history.
GetProfileData(name) ==
    IF name \in DOMAIN m_timingHistory /\ m_timingHistory[name] # <<>>
        THEN Profile(name, m_timingHistory[name])
        ELSE [name |-> name, totalTime |-> Zero, minTime |-> Zero, maxTime |-> Zero,
              avgTime |-> Zero, callCount |-> 0]

\* One particle at rest: what the profiler is told of the particles is their number.
ProfiledLayouts == {ps \in LoopLayouts : ps[1].velocity = V(0, 0)}

\* A profiler that has recorded nothing yet, or whose histories are one sample short
\* of full, or full.
InitProfiler ==
    \E n \in {0, MAX_HISTORY_SIZE - 1, MAX_HISTORY_SIZE} :
        \E ps \in ProfiledLayouts : Simulation(ps, AppConfig) /\ Profiled(n)

\* Any call of the profiler
NextProfiler ==
    \/ \E name \in TimerNames : StartTimer(name)
    \/ \E name \in TimerNames : EndTimer(name)
    \/ BeginFrame
    \/ EndFrame
    \/ \E fps \in {TARGET_FPS \div 2, TARGET_FPS} : UpdateFPS(fps)
    \/ \E count \in {0, Len(particles)} : ProfilerUpdateParticleCount(count)

SpecProfiler == InitProfiler /\ [][NextProfiler]_vars

(***************************************************************************)
(* Properties                                                              *)
(***************************************************************************)
\* The name of the last operation ("" in an initial state).
Last == IF history = <<>> THEN "" ELSE history[Len(history)]

\* The last operation was a simulation step: the application's or the engine's.
Stepped == Last \in {"update", "integrateParticles"}

\* The place of the call `name` among the calls of the last operation (0: not made).
Place(name) ==
    IF \E k \in DOMAIN phases : phases[k] = name
    THEN CHOOSE k \in DOMAIN phases : phases[k] = name
    ELSE 0

\* The centres of p and q are at least the sum of the radii apart (compared exactly,
\* on the squares).
Apart(p, q) ==
    LET d == VSub(q.position, p.position)
        r == FAdd(p.radius, q.radius)
    IN  FGe(Dot(d, d), FMul(r, r))

C2_NoInterpenetration ==
    (Stepped /\ FGe(deltaTime, Zero)) =>
        \A pr \in collided : Apart(particles[pr[1]], particles[pr[2]])

\* The particles as the collision pass of the last step received them.
AtCollisionPass ==
    IF Last = "update"
    THEN ApplyBoundaryConstraints(before, worldMin, worldMax, m_collisionDamping)
    ELSE before

\* The case in which C2 holds: in a collection of two particles with distinct
\* centres when the pair is tested, without air resistance and with deltaTime >= 0,
\* a pair found colliding during a step has its centres at least the sum of the
\* radii apart after it.
C2_TwoParticlesSeparated ==
    (/\ Stepped
     /\ FGe(deltaTime, Zero)
     /\ Len(particles) = 2
     /\ m_airResistance = Zero
     /\ AtCollisionPass[1].position # AtCollisionPass[2].position) =>
        \A pr \in collided : Apart(particles[pr[1]], particles[pr[2]])

\* A step in which that case happens, with particles of different mass.
C2_Witness ==
    /\ Stepped
    /\ FGt(deltaTime, Zero)
    /\ Len(particles) = 2
    /\ m_airResistance = Zero
    /\ AtCollisionPass[1].position # AtCollisionPass[2].position
    /\ particles[1].mass # particles[2].mass
    /\ collided = {<<1, 2>>}

\* The scenario of C4: masses 1, radii 1, at (-1.1, 0) and (1.1, 0), moving at (2, 0)
\* and (-2, 0); no gravity, no drag, damping 1, deltaTime 0.1.
C4_Scenario ==
    /\ initial = <<MakeParticle(<<Frac(-11, 10), Zero>>, F(1), V(2, 0), F(1)),
                   MakeParticle(<<Frac(11, 10), Zero>>, F(1), V(-2, 0), F(1))>>
    /\ m_gravity = VZero
    /\ m_airResistance = Zero
    /\ m_collisionDamping = One
    /\ deltaTime = Frac(1, 10)

Committed == Last \in {"update", "integrateParticles", "systemUpdate"}

\* C6: after every integration commit (ParticleSystem::update, integrateParticles,
\* the application's update) the acceleration of every particle is the zero vector.
C6_AccelerationReset ==
    Committed => \A i \in DOMAIN particles : particles[i].acceleration = VZero

C6_Witness ==
    /\ Last = "systemUpdate"
    /\ \E i \in DOMAIN before :
          before[i].acceleration # VZero /\ particles[i].velocity # before[i].velocity

\* C7 as claimed: the mass of every particle of the collection is positive.
C7_MassPositive == \A i \in DOMAIN particles : FGt(particles[i].mass, Zero)

\* C8 as claimed: an integration with deltaTime < 0 leaves the position and the
\* velocity of every particle unchanged (the code has no way to report an error).
C8_NegativeDeltaTimeIgnored ==
    (Last = "systemUpdate" /\ FLt(deltaTime, Zero)) =>
        \A i \in DOMAIN particles :
            /\ particles[i].position = before[i].position
            /\ particles[i].velocity = before[i].velocity

\* A run of n steps of the engine (no walls) on one particle that starts at rest,
\* without air resistance.
FreeFall ==
    /\ Len(initial) = 1
    /\ initial[1].velocity = VZero
    /\ m_airResistance = Zero
    /\ \A k \in DOMAIN history : history[k] = "integrateParticles"

\* C10: in free fall for n steps of deltaTime dt, the velocity is g*n*dt and the
\* displacement is g*dt^2*n*(n+1)/2, whatever the mass; the displacement exceeds the
\* exact 0.5*g*t^2, t = n*dt, by 0.5*g*dt*t and is never short of it.
C10_FreeFall ==
    FreeFall =>
        LET n == Len(history)
            t == FMul(F(n), deltaTime)
            disp == VSub(particles[1].position, initial[1].position)
            exact == VScale(m_gravity, FMul(Frac(1, 2), FMul(t, t)))
        IN  /\ particles[1].velocity = VScale(m_gravity, t)
            /\ disp = VScale(m_gravity,
                             FMul(FMul(deltaTime, deltaTime), Frac(n * (n + 1), 2)))
            /\ VSub(disp, exact) = VScale(m_gravity, FMul(Frac(1, 2), FMul(deltaTime, t)))
            /\ \A k \in {1, 2} : FGe(FAbs(disp[k]), FAbs(exact[k]))

C10_Witness ==
    /\ FreeFall
    /\ Len(history) = MaxSteps
    /\ m_gravity # VZero
    /\ initial[1].mass = F(3)
    /\ FGt(deltaTime, Zero)

\* The z component of the cross product of two vectors (0: they are parallel).
Cross(u, v) == FSub(FMul(u[1], v[2]), FMul(u[2], v[1]))

\* 0.5 * m * |v|^2
KineticEnergy(p) == FMul(FMul(Frac(1, 2), p.mass), Dot(p.velocity, p.velocity))

\* Two overlapping particles of equal mass with distinct centres, approaching along
\* the line of centres, with damping factor 1.
HeadOnElastic(p1, p2) ==
    LET delta == VSub(p2.position, p1.position)
    IN  /\ CheckCollision(p1, p2)
        /\ delta # VZero
        /\ p1.mass = p2.mass
        /\ FGt(p1.mass, Zero)
        /\ m_collisionDamping = One
        /\ Cross(p1.velocity, delta) = Zero
        /\ Cross(p2.velocity, delta) = Zero
        /\ FLt(Dot(VSub(p2.velocity, p1.velocity), delta), Zero)

\* C5: resolving a head-on collision of two particles of equal mass with damping
\* factor 1 swaps their velocities exactly and keeps the total kinetic energy.
C5_ElasticSwap ==
    (Last = "handleCollisions" /\ Len(before) = 2 /\ HeadOnElastic(before[1], before[2])) =>
        /\ particles[1].velocity = before[2].velocity
        /\ particles[2].velocity = before[1].velocity
        /\ FAdd(KineticEnergy(particles[1]), KineticEnergy(particles[2]))
             = FAdd(KineticEnergy(before[1]), KineticEnergy(before[2]))

C5_Witness ==
    /\ Last = "handleCollisions"
    /\ Len(before) = 2
    /\ HeadOnElastic(before[1], before[2])
    /\ before[1].mass = F(2)
    /\ before[1].position[2] # before[2].position[2]
    /\ particles[1].velocity # before[1].velocity

\* The particle p lies within the world on both axes.
Contained(p) ==
    \A k \in {1, 2} :
        /\ FGe(FSub(p.position[k], p.radius), worldMin[k])
        /\ FLe(FAdd(p.position[k], p.radius), worldMax[k])

\* C3 as claimed: from some frame on, every particle that started with a velocity
\* other than zero lies within the world at the end of every frame.
C3_EventuallyContained ==
    <>[](\A i \in DOMAIN particles :
            initial[i].velocity # VZero => Contained(particles[i]))

\* A single particle at rest initially, with gravity and air resistance zero.
AtRestAlone ==
    /\ Len(initial) = 1
    /\ initial[1].velocity = VZero
    /\ m_gravity = VZero
    /\ m_airResistance = Zero

\* C11 as claimed: a single particle at rest, without gravity and air resistance,
\* has its initial position and zero velocity after any number of steps.
C11_Stationary ==
    AtRestAlone =>
        /\ particles[1].position = initial[1].position
        /\ particles[1].velocity = VZero

\* C11 as amended: the particle keeps its position and zero velocity after any
\* number of steps if it lies within the world initially, or if the steps are the
\* engine's integrateParticles alone; a particle whose edge is beyond a wall is
\* moved within the world by the first update() and is at rest there.
C11_StationaryWithinBounds ==
    /\ (AtRestAlone /\ (Contained(initial[1])
                           \/ \A k \in DOMAIN history : history[k] = "integrateParticles")) =>
          /\ particles[1].position = initial[1].position
          /\ particles[1].velocity = VZero
    /\ (AtRestAlone /\ ~Contained(initial[1])
                    /\ \E k \in DOMAIN history : history[k] = "update") =>
          /\ Contained(particles[1])
          /\ particles[1].position # initial[1].position
          /\ particles[1].velocity = VZero

C11_Witness ==
    /\ AtRestAlone
    /\ Contained(initial[1])
    /\ Len(history) = MaxSteps
    /\ Last = "update"
    /\ \E k \in DOMAIN history : history[k] = "integrateParticles"

\* The particles at the same indices have the same mass and radius in both.
SameOrder(ps, qs) ==
    /\ Len(ps) = Len(qs)
    /\ \A k \in DOMAIN ps : ps[k].mass = qs[k].mass /\ ps[k].radius = qs[k].radius

\* C12: addParticle succeeds for every position and mass, makes the collection one
\* longer, puts the new particle last with the given position and mass, and leaves
\* every particle added before at its index with its fields unchanged; every other
\* operation keeps the size of the collection and the order of its particles.
C12_AppendOnly ==
    [][/\ \A pos \in PositionInputs, m \in MassInputs :
            AddParticle(pos, m) =>
                /\ Len(particles') = Len(particles) + 1
                /\ particles'[Len(particles')].position = pos
                /\ particles'[Len(particles')].mass = m
                /\ \A k \in DOMAIN particles : particles'[k] = particles[k]
       /\ history' # Append(history, "addParticle") => SameOrder(particles', particles)]_vars

C12_Witness ==
    /\ Last = "addParticle"
    /\ Len(particles) = 2
    /\ before # <<>>
    /\ particles[1] = before[1]
    /\ particles[2] # particles[1]

\* The particles after n steps of the application's update() from ps, with no other
\* call in between.
RECURSIVE Replay(_, _)
Replay(ps, n) ==
    IF n = 0
        THEN ps
        ELSE AppUpdate(Begin(Replay(ps, n - 1)), worldMin, worldMax, m_gravity,
                       m_airResistance, m_collisionDamping, deltaTime).ps

\* C13: capturing a frame, rendering and updating the profiler leave the particles
\* as they are: after any number of iterations of the main loop, with these calls
\* between the steps, the particles are those of the same number of update() calls
\* alone (same size, order, position, velocity, acceleration, mass and radius).
C13_CollaboratorsReadOnly ==
    particles = Replay(initial, Len(history))

C13_Witness ==
    /\ Len(history) = MaxSteps
    /\ m_frames # <<>>
    /\ m_drawn # <<>>
    /\ m_currentParticleCount = Len(particles)
    /\ particles # initial
    /\ particles = Replay(initial, MaxSteps)

\* C14: every captured frame has the timestamp and the frame index the caller
\* supplied (the simulation time and the frame count of the iteration, before they
\* advance) and records for every particle its mass and the acceleration of the
\* step that produced the captured state as it was before that step's reset: the
\* gravity, when only gravity acts.
C14_AccelerationBeforeReset ==
    \A f \in DOMAIN m_frames :
        /\ m_frames[f].timestamp = Zero
        /\ m_frames[f].frameNumber = 0
        /\ \A i \in DOMAIN m_frames[f].particles :
              /\ m_frames[f].particles[i].mass = initial[i].mass
              /\ m_airResistance = Zero =>
                    m_frames[f].particles[i].acceleration = m_gravity

\* What the exporter records: run() captures after update() has returned, so the
\* acceleration of every captured particle is the zero vector of the reset; the
\* timestamp, the frame index, the mass and the rest are those of the captured state.
C14_CapturedAfterReset ==
    \A f \in DOMAIN m_frames :
        /\ m_frames[f] = SimulationFrame(Replay(initial, 1), Zero, 0)
        /\ \A i \in DOMAIN m_frames[f].particles :
              /\ m_frames[f].particles[i].mass = initial[i].mass
              /\ m_frames[f].particles[i].acceleration = VZero

\* Every coordinate of the position and of the velocity of p is a finite number.
FiniteState(p) ==
    /\ IsFinite(p.position[1]) /\ IsFinite(p.position[2])
    /\ IsFinite(p.velocity[1]) /\ IsFinite(p.velocity[2])

\* The first two particles had the same centre before the last operation.
Coincided ==
    /\ Len(before) >= 2
    /\ before[1].position = before[2].position

\* C15: in a collision pass a pair with the same centre is found overlapping and its
\* resolution is skipped: when the two are alone their positions and velocities
\* are unchanged; when a third particle overlaps them, the pairs with the third
\* are still resolved; in both cases every position and velocity stays finite.
C15_CoincidentSkipped ==
    (Last = "handleCollisions" /\ Coincided) =>
        /\ <<1, 2>> \in collided
        /\ \A i \in DOMAIN particles : FiniteState(particles[i])
        /\ Len(before) = 2 => particles = before
        /\ (Len(before) = 3 /\ CheckCollision(before[1], before[3])) =>
              /\ {<<1, 3>>, <<2, 3>>} \subseteq collided
              /\ CalculateDistance(particles[2], particles[3])
                    = FAdd(particles[2].radius, particles[3].radius)

C15_Witness ==
    /\ Last = "handleCollisions"
    /\ Coincided
    /\ Len(before) = 3
    /\ before[1].velocity # before[2].velocity
    /\ particles[3] # before[3]

\* C16: for deltaTime >= 0 the integration commit sets the velocity to velocity +
\* acceleration * deltaTime first and then the position to position + the new
\* velocity * deltaTime, and leaves mass and radius as they are.
C16_SemiImplicitEuler ==
    (Last = "systemUpdate" /\ FGe(deltaTime, Zero)) =>
        \A i \in DOMAIN particles :
            /\ particles[i].velocity
                  = VAdd(before[i].velocity, VScale(before[i].acceleration, deltaTime))
            /\ particles[i].position
                  = VAdd(before[i].position, VScale(particles[i].velocity, deltaTime))
            /\ particles[i].mass = before[i].mass
            /\ particles[i].radius = before[i].radius

C16_Witness ==
    /\ Last = "systemUpdate"
    /\ FGt(deltaTime, Zero)
    /\ particles # <<>>
    /\ before[1].velocity # VZero
    /\ before[1].acceleration # VZero
    /\ FiniteState(particles[1])
    /\ particles[1].position
          # VAdd(before[1].position, VScale(before[1].velocity, deltaTime))

\* The edge of p is beyond the lower, or the upper, wall of axis k.
BelowMin(p, k) == FLt(FSub(p.position[k], p.radius), worldMin[k])
AboveMax(p, k) == FGt(FAdd(p.position[k], p.radius), worldMax[k])

\* The world is at least as wide as p on axis k.
Fits(p, k) == FLe(FMul(F(2), p.radius), FSub(worldMax[k], worldMin[k]))

\* What one application of applyBoundaryConstraints is claimed to do to particle p
\* on axis k, q being the particle afterwards.
ConfinedOnce(p, q, k) ==
    /\ BelowMin(p, k) =>
          /\ q.position[k] = FAdd(worldMin[k], p.radius)
          /\ q.velocity[k] = FMul(FNeg(p.velocity[k]), m_collisionDamping)
    /\ AboveMax(p, k) =>
          /\ q.position[k] = FSub(worldMax[k], p.radius)
          /\ q.velocity[k] = FMul(FNeg(p.velocity[k]), m_collisionDamping)
    /\ (~BelowMin(p, k) /\ ~AboveMax(p, k)) =>
          /\ q.position[k] = p.position[k]
          /\ q.velocity[k] = p.velocity[k]
    /\ ~BelowMin(q, k)
    /\ ~AboveMax(q, k)

\* The last operation was applyBoundaryConstraints, on finite particles in a world
\* with worldMin < worldMax on both axes.
Confining ==
    /\ Last = "applyBoundaryConstraints"
    /\ \A k \in 1..2 : FLt(worldMin[k], worldMax[k])
    /\ \A i \in DOMAIN before : FiniteState(before[i])

DistanceSquared(a, b) == Dot(VSub(b, a), VSub(b, a))

\* The last operation was a collision pass on two overlapping particles with
\* distinct centres and finite positions.
PairResolved ==
    /\ Last = "handleCollisions"
    /\ Len(before) = 2
    /\ collided = {<<1, 2>>}
    /\ before[1].position # before[2].position
    /\ FiniteState(before[1]) /\ FiniteState(before[2])

\* The distance between p and q is computed without rounding.
ExactDistance(p, q) ==
    FMul(CalculateDistance(p, q), CalculateDistance(p, q))
        = DistanceSquared(p.position, q.position)

\* C18: resolving an overlapping pair with distinct centres moves the two centres
\* apart along their line by the same amount, whatever the masses: afterwards the
\* midpoint of the centres is where it was, the two displacements are opposite,
\* the second particle is still on the same side of the first, and, where the square
\* root of the distance is computed without rounding, the distance between the
\* centres is the sum of the radii.
C18_SymmetricCorrection ==
    PairResolved =>
        /\ ExactDistance(before[1], before[2]) =>
              DistanceSquared(particles[1].position, particles[2].position)
                  = FMul(FAdd(before[1].radius, before[2].radius),
                         FAdd(before[1].radius, before[2].radius))
        /\ VAdd(particles[1].position, particles[2].position)
              = VAdd(before[1].position, before[2].position)
        /\ VSub(particles[1].position, before[1].position)
              = VSub(before[2].position, particles[2].position)
        /\ FGt(Dot(VSub(particles[2].position, particles[1].position),
                   VSub(before[2].position, before[1].position)), Zero)

C18_Witness ==
    /\ PairResolved
    /\ before[1].mass # before[2].mass
    /\ particles[1].position # before[1].position
    /\ ExactDistance(before[1], before[2])
    /\ FLt(CalculateDistance(before[1], before[2]), F(2))

\* The velocity of the second of ps relative to the first, along the normal of the
\* pair that the last operation resolved.
VelAlongNormal(ps) ==
    Dot(VSub(ps[2].velocity, ps[1].velocity),
        Normalize(VSub(before[2].position, before[1].position)))

\* The last operation resolved a pair of positive masses whose normal is computed
\* without rounding.
PairResolvedExactly ==
    /\ PairResolved
    /\ ExactDistance(before[1], before[2])
    /\ FGt(before[1].mass, Zero) /\ FGt(before[2].mass, Zero)

\* C19 as claimed: an overlapping pair that is separating is left unmodified by the
\* resolution; a pair that is not has afterwards the relative normal velocity
\* -restitution times the one before.
C19_SeparatingUnmodified ==
    PairResolvedExactly =>
        /\ FGt(VelAlongNormal(before), Zero) => particles = before
        /\ FLe(VelAlongNormal(before), Zero) =>
              VelAlongNormal(particles) = FMul(FNeg(m_collisionDamping), VelAlongNormal(before))

\* C19 as amended: the velocities of a separating pair are left as they are, while
\* its positions are corrected like those of any overlapping pair; a pair that is
\* not separating has afterwards the relative normal velocity -restitution times
\* the one before, which is not negative.
C19_SeparatingVelocityUnmodified ==
    PairResolvedExactly =>
        /\ FGt(VelAlongNormal(before), Zero) =>
              /\ particles[1].velocity = before[1].velocity
              /\ particles[2].velocity = before[2].velocity
              /\ particles[1].position # before[1].position
              /\ particles[2].position # before[2].position
        /\ FLe(VelAlongNormal(before), Zero) =>
              /\ VelAlongNormal(particles)
                    = FMul(FNeg(m_collisionDamping), VelAlongNormal(before))
              /\ FGe(VelAlongNormal(particles), Zero)

C19_Witness ==
    /\ PairResolvedExactly
    /\ FGt(VelAlongNormal(before), Zero)
    /\ before[1].mass # before[2].mass
    /\ particles[1].velocity = before[1].velocity
    /\ particles[1].position # before[1].position

\* An approaching pair whose velocities the resolution has changed.
C19_ApproachingWitness ==
    /\ PairResolvedExactly
    /\ FLt(VelAlongNormal(before), Zero)
    /\ m_collisionDamping = Frac(4, 5)
    /\ before[1].mass # before[2].mass
    /\ FGt(VelAlongNormal(particles), Zero)

\* The momentum mass * velocity of a particle.
MomentumOf(p) == VScale(p.velocity, p.mass)

\* The total momentum of the first n particles of ps.
RECURSIVE Momentum(_, _)
Momentum(ps, n) ==
    IF n = 0 THEN VZero ELSE VAdd(Momentum(ps, n - 1), MomentumOf(ps[n]))

\* The last operation was a collision pass that resolved a pair, on particles of
\* positive mass with finite positions and velocities.
PassResolved ==
    /\ Last = "handleCollisions"
    /\ collided # {}
    /\ \A i \in DOMAIN before : FiniteState(before[i]) /\ FGt(before[i].mass, Zero)

\* C20: a collision pass leaves the total momentum of the collection as it was,
\* whatever the damping factor; when the pass resolved one pair, the changes of
\* momentum of its two particles are opposite (m1 * dv1 = -(m2 * dv2)), so that
\* m1 * |dv1| = m2 * |dv2|.
C20_MomentumConserved ==
    PassResolved =>
        /\ Momentum(particles, Len(particles)) = Momentum(before, Len(before))
        /\ Len(before) = 2 =>
              VScale(VSub(particles[1].velocity, before[1].velocity), before[1].mass)
                  = VNeg(VScale(VSub(particles[2].velocity, before[2].velocity),
                                before[2].mass))

C20_Witness ==
    /\ PassResolved
    /\ Len(before) = 3
    /\ Cardinality(collided) >= 2
    /\ before[1].mass # before[2].mass
    /\ m_collisionDamping = Frac(4, 5)
    /\ \A i \in DOMAIN particles : particles[i].velocity # before[i].velocity

\* A pair of different masses whose velocities the pass has changed.
C20_PairWitness ==
    /\ PassResolved
    /\ Len(before) = 2
    /\ before[1].mass # before[2].mass
    /\ particles[1].velocity # before[1].velocity
    /\ Momentum(before, 2) # VZero

\* The pairs (i, j) with i < j <= n from (i, j) on, i ascending, then j ascending.
RECURSIVE PairsFrom(_, _, _)
PairsFrom(i, j, n) ==
    IF i > n THEN <<>>
    ELSE IF j > n THEN PairsFrom(i + 1, i + 2, n)
    ELSE <<(<<i, j>>)>> \o PairsFrom(i, j + 1, n)

\* The particles ps after the pairs from the k-th on have been tested and resolved
\* one after the other, each on the particles as the pairs before it left them.
RECURSIVE OneAfterTheOther(_, _, _)
OneAfterTheOther(ps, pairs, k) ==
    IF k > Len(pairs) THEN ps
    ELSE IF CheckCollision(ps[pairs[k][1]], ps[pairs[k][2]])
         THEN OneAfterTheOther(
                  [ps EXCEPT ![pairs[k][1]] = ResolveCollision(ps[pairs[k][1]],
                                  ps[pairs[k][2]], m_collisionDamping)[1],
                             ![pairs[k][2]] = ResolveCollision(ps[pairs[k][1]],
                                  ps[pairs[k][2]], m_collisionDamping)[2]],
                  pairs, k + 1)
         ELSE OneAfterTheOther(ps, pairs, k + 1)

\* C21: a collision pass tests every pair (i, j) with i < j once, i ascending and
\* then j ascending, and no particle against itself; each test and resolution works
\* on the particles as the resolutions before it in the pass have left them.
C21_PairsInOrder ==
    Last = "handleCollisions" =>
        /\ tested = PairsFrom(1, 2, Len(before))
        /\ \A k \in DOMAIN tested : tested[k][1] < tested[k][2]
        /\ \A k, l \in DOMAIN tested : tested[k] = tested[l] => k = l
        /\ collided \subseteq {tested[k] : k \in DOMAIN tested}
        /\ particles = OneAfterTheOther(before, tested, 1)

\* A row of three in which the second pair is resolved on what the first has left.
C21_Witness ==
    /\ Last = "handleCollisions"
    /\ Len(before) = 3
    /\ tested = <<(<<1, 2>>), (<<1, 3>>), (<<2, 3>>)>>
    /\ collided = {<<1, 2>>, <<2, 3>>}
    /\ \A i \in DOMAIN before : FiniteState(before[i])
    /\ particles # HandleCollisions_Snapshot(before, m_collisionDamping).ps
    /\ CalculateDistance(particles[2], particles[3])
          = FAdd(particles[2].radius, particles[3].radius)

\* The square of the sum of the radii of p and q.
ReachSquared(p, q) == FMul(FAdd(p.radius, q.radius), FAdd(p.radius, q.radius))

\* C22: the first pair of a collision pass is treated as colliding exactly when the
\* distance between the centres is less than the sum of the radii (stated on the
\* computed distance, and on the squares where the distance is computed without
\* rounding); two particles at a distance equal to the sum of their radii are not
\* colliding and the pass leaves them as they are.
C22_CollidingIffCloser ==
    (Last = "handleCollisions" /\ Len(before) >= 2) =>
        /\ <<1, 2>> \in collided
              <=> FLt(CalculateDistance(before[1], before[2]),
                      FAdd(before[1].radius, before[2].radius))
        /\ ExactDistance(before[1], before[2]) =>
              (<<1, 2>> \in collided
                  <=> FLt(DistanceSquared(before[1].position, before[2].position),
                          ReachSquared(before[1], before[2])))
        /\ (/\ Len(before) = 2
            /\ DistanceSquared(before[1].position, before[2].position)
                  = ReachSquared(before[1], before[2])) =>
              collided = {} /\ particles = before

\* A touching pair, approaching, that a collision pass has left alone.
C22_Witness ==
    /\ Last = "handleCollisions"
    /\ Len(before) = 2
    /\ DistanceSquared(before[1].position, before[2].position)
          = ReachSquared(before[1], before[2])
    /\ before[1].position[2] # before[2].position[2]
    /\ FLt(Dot(VSub(before[2].velocity, before[1].velocity),
               VSub(before[2].position, before[1].position)), Zero)
    /\ particles = before

\* Particle p with the gravity added to its acceleration and nothing else changed.
WithGravity(p) == [p EXCEPT !.acceleration = VAdd(@, m_gravity)]

\* C23: applyGravity adds the gravity vector to the acceleration of every particle of
\* positive mass, whatever the mass, and changes nothing else; applyAirResistance
\* leaves a particle with zero velocity as it is, whatever the coefficient; so the
\* two, one after the other, add exactly the gravity to the acceleration of a
\* particle at rest.
C23_GravityOnlyAtRest ==
    /\ Last = "applyGravity" =>
          \A i \in DOMAIN particles :
              FGt(before[i].mass, Zero) => particles[i] = WithGravity(before[i])
    /\ Last = "applyAirResistance" =>
          \A i \in DOMAIN particles :
              before[i].velocity = VZero => particles[i] = before[i]
    /\ history = <<"applyGravity", "applyAirResistance">> =>
          \A i \in DOMAIN particles :
              (initial[i].velocity = VZero /\ FGt(initial[i].mass, Zero)) =>
                  particles[i] = WithGravity(initial[i])

C23_Witness ==
    /\ history = <<"applyGravity", "applyAirResistance">>
    /\ m_airResistance = One
    /\ m_gravity # VZero
    /\ Len(initial) = 2
    /\ initial[1].mass # initial[2].mass
    /\ \A i \in DOMAIN initial : initial[i].velocity = VZero
    /\ particles[1].acceleration = m_gravity
    /\ particles[2].acceleration = m_gravity

\* The total kinetic energy of the first two particles of ps.
PairEnergy(ps) == FAdd(KineticEnergy(ps[1]), KineticEnergy(ps[2]))

\* C24: with a damping factor in [0, 1], resolving a collision of two overlapping
\* particles of positive mass whose normal is computed without rounding does not
\* increase the total kinetic energy of the pair, and leaves it exactly as it was
\* when the factor is 1.
C24_NoEnergyCreated ==
    (/\ PairResolvedExactly
     /\ FGe(m_collisionDamping, Zero)
     /\ FLe(m_collisionDamping, One)) =>
        /\ FLe(PairEnergy(particles), PairEnergy(before))
        /\ m_collisionDamping = One => PairEnergy(particles) = PairEnergy(before)

\* An inelastic collision of two different masses that has taken energy away.
C24_Witness ==
    /\ PairResolvedExactly
    /\ m_collisionDamping = Frac(4, 5)
    /\ before[1].mass # before[2].mass
    /\ FLt(VelAlongNormal(before), Zero)
    /\ FLt(PairEnergy(particles), PairEnergy(before))
    /\ FGt(PairEnergy(particles), Zero)

\* An elastic collision of two different masses that has changed both velocities.
C24_ElasticWitness ==
    /\ PairResolvedExactly
    /\ m_collisionDamping = One
    /\ before[1].mass # before[2].mass
    /\ particles[1].velocity # before[1].velocity
    /\ particles[2].velocity # before[2].velocity
    /\ PairEnergy(particles) = PairEnergy(before)

\* C25: whenever applyBoundaryConstraints, with a damping factor in [0, 1], corrects
\* a particle at a wall, the velocity on the corrected axis does not point toward
\* that wall afterwards: it is >= 0 after a correction at worldMin and <= 0 after
\* a correction at worldMax.
C25_BounceInward ==
    (/\ Confining
     /\ FGe(m_collisionDamping, Zero)
     /\ FLe(m_collisionDamping, One)) =>
        \A i \in DOMAIN particles, k \in 1..2 :
            Fits(before[i], k) =>
                /\ BelowMin(before[i], k) => FGe(particles[i].velocity[k], Zero)
                /\ AboveMax(before[i], k) => FLe(particles[i].velocity[k], Zero)

\* What the correction does: it reverses the velocity of the axis whichever way it
\* points, so a particle beyond a wall that was moving toward it moves away
\* afterwards and one that was moving away moves toward it.
C25_VelocityReversed ==
    Confining =>
        \A i \in DOMAIN particles, k \in 1..2 :
            (Fits(before[i], k) /\ (BelowMin(before[i], k) \/ AboveMax(before[i], k))) =>
                particles[i].velocity[k]
                    = FMul(FNeg(before[i].velocity[k]), m_collisionDamping)

\* Particles p and q differ at most in their acceleration.
SameButAcceleration(p, q) == [p EXCEPT !.acceleration = q.acceleration] = q

\* C26: applyGravity, applyAirResistance, applyGlobalForce, applyBoundaryConstraints,
\* handleCollisions, integrateParticles, ParticleSystem::update and the application's
\* update leave the mass and the radius of every particle and the size and order of
\* the collection as they were; the three that apply forces change nothing but
\* the acceleration; applyBoundaryConstraints and handleCollisions leave the
\* acceleration as it was.
C26_IdentityPreserved ==
    /\ Last \in {"applyGravity", "applyAirResistance", "applyGlobalForce",
                 "applyBoundaryConstraints", "handleCollisions", "integrateParticles",
                 "systemUpdate", "update"} => SameOrder(particles, before)
    /\ Last \in {"applyGravity", "applyAirResistance", "applyGlobalForce"} =>
          \A i \in DOMAIN particles : SameButAcceleration(before[i], particles[i])
    /\ Last \in {"applyBoundaryConstraints", "handleCollisions"} =>
          \A i \in DOMAIN particles : particles[i].acceleration = before[i].acceleration

\* A collision pass on particles that carry different accelerations and masses.
C26_Witness ==
    /\ history = <<"applyGlobalForce", "handleCollisions">>
    /\ Len(before) = 2
    /\ collided = {<<1, 2>>}
    /\ before[1].mass # before[2].mass
    /\ before[1].acceleration # before[2].acceleration
    /\ particles[1].velocity # before[1].velocity
    /\ particles[1].acceleration = before[1].acceleration

\* A drag force that has changed the acceleration of a moving particle only.
C26_DragWitness ==
    /\ Last = "applyAirResistance"
    /\ particles # <<>>
    /\ particles[1].acceleration # before[1].acceleration
    /\ SameButAcceleration(before[1], particles[1])

\* The call of update() of an iteration: boundary constraints, then the four calls
\* of integrateParticles.
UpdateCalls ==
    <<"applyBoundaryConstraints", "applyGravity", "applyAirResistance",
      "handleCollisions", "update">>

\* The circles that rendering the particles ps draws.
Circles(ps) == [i \in DOMAIN ps |-> [center |-> ps[i].position, radius |-> ps[i].radius]]

\* What a step that advances the simulation time does: one update(), one render of
\* the updated particles, one increment of the frame count, and a capture exactly
\* when the frame count was a multiple of 30.
OneIteration ==
    m_simulationTime' # m_simulationTime =>
        /\ phases' = UpdateCalls
        /\ m_drawn' = Circles(particles')
        /\ m_frameCount' = (m_frameCount + 1) % CaptureEvery
        /\ m_frameCount % CaptureEvery = 0 => Len(m_frames') = Len(m_frames) + 1
        /\ m_frameCount % CaptureEvery # 0 => m_frames' = m_frames
        /\ pc' = "cleanup" <=> FGt(m_simulationTime', F(DemoSeconds))

\* C27: the main loop always ends, whether or not the window is closed: it is left
\* at the first iteration after which the simulation time is beyond 30 seconds;
\* every iteration makes one update, one render and one increment of the frame
\* count and captures a frame exactly when the frame count is a multiple of 30;
\* cleanup() runs once after the loop, however the loop was left.
C27_LoopTerminates ==
    /\ <>(pc = "done")
    /\ [](cleanups = (IF pc = "done" THEN 1 ELSE 0))
    /\ [](pc = "loop" => FLe(m_simulationTime, F(DemoSeconds)))
    /\ [][OneIteration]_vars

\* The demo has run its 30 seconds with the window open: 1801 iterations, 61 frames
\* captured.
C27_Witness ==
    /\ pc = "done"
    /\ ~shouldClose
    /\ cleanups = 1
    /\ m_simulationTime = Frac(DemoSeconds * TARGET_FPS + 1, TARGET_FPS)
    /\ Len(m_frames) = ((DemoSeconds * TARGET_FPS) \div CaptureEvery) + 1
    /\ particles # initial


\* The frames captured by the calls since the last clearData, oldest first.
RECURSIVE CapturedSince(_, _)
CapturedSince(calls, k) ==
    IF k = 0 \/ calls[k].op = "clearData" THEN <<>>
    ELSE IF calls[k].op = "captureFrame"
        THEN Append(CapturedSince(calls, k - 1), calls[k].arg)
        ELSE CapturedSince(calls, k - 1)

\* s is what is left of t when frames are dropped from its front.
IsSuffix(s, t) ==
    /\ Len(s) <= Len(t)
    /\ \A k \in 1..Len(s) : s[k] = t[Len(t) - Len(s) + k]

\* C28 (as stated) After any sequence of captureFrame, setMaxFrames and clearData
\* calls the exporter retains no more frames than the configured maximum.
C28_CountWithinCap == Len(m_frames) <= m_maxFrames

\* What holds of C28: the retained frames are the most recently captured ones since
\* the last clearData, in capture order, and a captureFrame that finds more frames
\* than the maximum allows drops exactly the oldest one.
C28_MostRecentRetained ==
    IsSuffix(m_frames, CapturedSince(history, Len(history)))

C28_OldestDropped ==
    [][history' # history /\ history'[Len(history')].op = "captureFrame" =>
          m_frames' = IF Len(m_frames) + 1 > m_maxFrames
                          THEN Tail(Append(m_frames, history'[Len(history')].arg))
                          ELSE Append(m_frames, history'[Len(history')].arg)]_vars

\* C29 (as stated) Whenever a frame is retained, the recorded start time is the
\* timestamp of the oldest retained frame and the recorded end time that of the
\* newest one.
C29_WindowMatchesFrames ==
    m_frames # <<>> =>
        /\ m_firstFrameTime = m_frames[1].timestamp
        /\ m_lastFrameTime = m_frames[Len(m_frames)].timestamp

\* What holds of C29: the recorded end time is the timestamp of the newest frame.
C29_EndMatchesNewest ==
    m_frames # <<>> => m_lastFrameTime = m_frames[Len(m_frames)].timestamp

\* JSONExporter::exportToFile: the duration written in the metadata
ExportedDuration == FSub(m_lastFrameTime, m_firstFrameTime)

\* C29 (as stated, the duration) The exported duration is the time from the oldest
\* to the newest of the frames that are exported.
C29_DurationOverFrames ==
    m_frames # <<>> =>
        ExportedDuration = FSub(m_frames[Len(m_frames)].timestamp, m_frames[1].timestamp)

RECURSIVE PendingAt(_, _, _)
\* After the first k calls, a startTimer(name) has had no endTimer(name) yet.
PendingAt(calls, k, name) ==
    IF k = 0 THEN FALSE
    ELSE IF calls[k].op = "startTimer" /\ calls[k].arg = name THEN TRUE
    ELSE IF calls[k].op = "endTimer" /\ calls[k].arg = name THEN FALSE
    ELSE PendingAt(calls, k - 1, name)

\* The endTimer(name) calls that found a start of their name pending
Completed(calls, name) ==
    Cardinality({k \in DOMAIN calls :
        /\ calls[k].op = "endTimer" /\ calls[k].arg = name
        /\ PendingAt(calls, k - 1, name)})

\* The startTimer(name) calls that an endTimer(name) follows
FollowedStarts(calls, name) ==
    Cardinality({k \in DOMAIN calls :
        /\ calls[k].op = "startTimer" /\ calls[k].arg = name
        /\ \E j \in DOMAIN calls :
              j > k /\ calls[j].op = "endTimer" /\ calls[j].arg = name})

\* The number of samples after `added` more samples on top of the initial ones
Capped(added) ==
    IF recorded + added > MAX_HISTORY_SIZE THEN MAX_HISTORY_SIZE ELSE recorded + added

\* The history h has become h2 by one more sample, the oldest one lost if h was
\* full.
Pushed(h, h2) ==
    /\ h2 # <<>>
    /\ SubSeq(h2, 1, Len(h2) - 1) = IF Len(h) = MAX_HISTORY_SIZE THEN Tail(h) ELSE h

\* The histories of the profiler, all of them
Histories ==
    {m_frameTimeHistory, m_fpsHistory, m_particleCountHistory}
        \cup {m_timingHistory[name] : name \in TimerNames}

\* What the last call, `call`, has done to the histories and to the pending starts
CallRecorded(call) ==
    /\ call.op = "endTimer" /\ ~PendingAt(history, Len(history), call.arg) =>
          m_timingHistory' = m_timingHistory /\ m_startTimes' = m_startTimes
    /\ call.op = "endTimer" /\ PendingAt(history, Len(history), call.arg) =>
          /\ Pushed(m_timingHistory[call.arg], m_timingHistory'[call.arg])
          /\ \A name \in TimerNames \ {call.arg} :
                m_timingHistory'[name] = m_timingHistory[name]
          /\ ~\E e \in m_startTimes' : e[1] = call.arg
          /\ \A e \in m_startTimes : e[1] # call.arg => e \in m_startTimes'
    /\ call.op = "startTimer" =>
          /\ m_timingHistory' = m_timingHistory
          /\ \E e \in m_startTimes' : e[1] = call.arg
    /\ call.op = "endFrame" => Pushed(m_frameTimeHistory, m_frameTimeHistory')
    /\ call.op = "updateFPS" =>
          /\ Pushed(m_fpsHistory, m_fpsHistory')
          /\ m_fpsHistory'[Len(m_fpsHistory')] = call.arg
    /\ call.op = "updateParticleCount" =>
          /\ Pushed(m_particleCountHistory, m_particleCountHistory')
          /\ m_particleCountHistory'[Len(m_particleCountHistory')] = call.arg

\* C30 (as stated) Every startTimer that an endTimer of the same name follows
\* contributes exactly one sample to the history of its name: the callCount of a
\* name is the number of such startTimer calls on top of the samples it had, capped
\* at MAX_HISTORY_SIZE.
C30_EveryStartCounts ==
    \A name \in TimerNames : CallCount(name) = Capped(FollowedStarts(history, name))

\* What holds of C30: every history holds at most MAX_HISTORY_SIZE samples and loses its
\* oldest sample to a new one when it is full; an endTimer whose name has no start
\* pending records nothing; an endTimer whose name has a start pending consumes it
\* and records exactly one sample under that name; a startTimer on a name whose
\* start is pending replaces that start, so callCount is the number of endTimer
\* calls that found a start pending, capped at MAX_HISTORY_SIZE.
C30_TimersPairUp ==
    /\ [](\A h \in Histories : Len(h) <= MAX_HISTORY_SIZE)
    /\ [](\A name \in TimerNames :
            /\ CallCount(name) = Capped(Completed(history, name))
            /\ (\E e \in m_startTimes : e[1] = name)
                   <=> PendingAt(history, Len(history), name))
    /\ [][history' # history => CallRecorded(history'[Len(history')])]_vars

\* On a profiler whose histories are full, a timer was started and ended, and ended
\* once more: one sample was recorded and the oldest one was lost for it.
C30_Witness ==
    /\ recorded = MAX_HISTORY_SIZE
    /\ Len(history) = 3
    /\ history[1] = [op |-> "startTimer", arg |-> "total_frame"]
    /\ history[2] = [op |-> "endTimer", arg |-> "total_frame"]
    /\ history[3] = [op |-> "endTimer", arg |-> "total_frame"]
    /\ m_timingHistory["total_frame"][1] = 2
    /\ m_timingHistory["total_frame"][MAX_HISTORY_SIZE] = 1
    /\ GetProfileData("total_frame").callCount = MAX_HISTORY_SIZE
    /\ GetProfileData("physics_update").maxTime = F(MAX_HISTORY_SIZE)

\* A timer was started twice and ended once: one sample for two starts.
C30_RestartWitness ==
    /\ recorded = 0
    /\ Len(history) = 3
    /\ history[1] = [op |-> "startTimer", arg |-> "total_frame"]
    /\ history[2] = [op |-> "startTimer", arg |-> "total_frame"]
    /\ history[3] = [op |-> "endTimer", arg |-> "total_frame"]
    /\ m_timingHistory["total_frame"] = <<1>>
    /\ GetProfileData("total_frame").callCount = 1
====
